---- MODULE Spec2Model ----
(***************************************************************************)
(* Model of the diary ingestion pipeline of letterboxd-wrapped-lite:       *)
(* backend/app/routers/ingestion.py (ingest_rss, process_rss_data),        *)
(* backend/app/services/rss_ingestion.py (fetch_user_diary) and            *)
(* backend/app/services/tmdb_service.py (search_movie), over the tables of *)
(* backend/app/models.py.                                                  *)
(*                                                                         *)
(* Every run of process_rss_data is a coroutine on one event loop.  It     *)
(* suspends only at its awaits (feed fetch, metadata search, closing the   *)
(* clients); the code between two awaits runs without interleaving.  The   *)
(* actions below cut a run at its awaits and at its commits: after a       *)
(* commit the run holds no pending row, so a cut there adds no behaviour   *)
(* that the committed database does not already show to other readers.     *)
(***************************************************************************)
EXTENDS Integers, Sequences, FiniteSets, TLC

(***************************************************************************)
(* Bounds of the model.                                                    *)
(***************************************************************************)
MaxEntries == 2          \* entries the feeds of one behaviour hold together
MaxRows == 3             \* entries handed to compute_user_stats
MaxRanked == 6           \* entries handed to compute_user_stats for its rankings
MaxItems == 2            \* item elements of a feed document
MaxChars == 11           \* letters of the review in an item's description

SessionIds == {"s1", "s2"}     \* the uuid4 tokens ingest_rss can draw
FirstSession == "s1"
Usernames == {"alice"}         \* the user every request of a behaviour names

(***************************************************************************)
(* Optional values.  None stands for Python's None in an Optional[int];    *)
(* NoneStr for None in an Optional[str] (and for an absent dict key).      *)
(***************************************************************************)
None == -1
NoneStr == "<None>"

PROCESSING == "processing"
COMPLETED == "completed"
FAILED == "failed"
SessionStatus == {PROCESSING, COMPLETED, FAILED}

(***************************************************************************)
(* Inputs: what the feed and the metadata source can answer.               *)
(***************************************************************************)
\* A parsed feed entry as process_rss_data uses it: title, optional year and
\* optional rating (in half stars: 7 is 3.5).
EntryData == {[title |-> "A", year |-> None, rating |-> None],
              [title |-> "B", year |-> 2020, rating |-> 7]}

RECURSIVE SeqsUpTo(_, _)
SeqsUpTo(S, n) ==
    IF n = 0 THEN {<<>>}
    ELSE LET shorter == SeqsUpTo(S, n - 1)
         IN  shorter \cup {Append(s, x) : s \in {t \in shorter : Len(t) = n - 1}, x \in S}

Feeds == SeqsUpTo(EntryData, MaxEntries)

\* Answers of the feed GET: a status code with a body, a timeout, another
\* transport error.  A 2xx body is either unparsable XML (xml_ok FALSE) or
\* parses to a list of entries; the body of another status is never parsed.
StatusCodes == {200, 301, 403, 404, 500}
FetchOutcomes ==
    {[kind |-> "response", code |-> 200, xml_ok |-> TRUE, parsed |-> f] : f \in Feeds}
    \cup {[kind |-> "response", code |-> c, xml_ok |-> FALSE, parsed |-> <<>>] :
            c \in StatusCodes}
    \cup {[kind |-> k, code |-> 0, xml_ok |-> FALSE, parsed |-> <<>>] :
        k \in {"timeout", "transport"}}

\* release_date strings of a search result, as sequences of characters.
ReleaseDates == {<<>>, <<"2", "0", "1", "9", "-", "0", "5">>, <<"T", "B", "A">>}
TmdbIds == {1}
ResultTitles == {"T"}

\* What search_movie can hand back: None, a dict (first result), or a truthy
\* value that is not a dict (results[0] of a malformed result list).
SearchResults ==
    {[kind |-> "none", id |-> None, release_date |-> <<>>, title |-> NoneStr],
     [kind |-> "nondict", id |-> None, release_date |-> <<>>, title |-> NoneStr]}
    \cup {[kind |-> "dict", id |-> d, release_date |-> r, title |-> t] :
            d \in TmdbIds \cup {None}, r \in ReleaseDates, t \in ResultTitles}

\* Answers of the metadata GET: transport error, rate limit or other HTTP
\* error status, a body that is not JSON, a JSON body with an empty result
\* list, or a result list whose first element is r.
SearchOutcomes ==
    {[kind |-> k, first |-> [kind |-> "none", id |-> None, release_date |-> <<>>, title |-> NoneStr]] :
        k \in {"network_error", "rate_limit", "bad_json", "no_results"}}
    \cup {[kind |-> "results", first |-> r] : r \in {s \in SearchResults : s.kind # "none"}}

VARIABLES
    sessions,        \* table ProcessingSession, committed rows by session_id
    diary_entries,   \* table DiaryEntry, committed rows in insertion order
    movie_details,   \* table MovieDetails, committed rows
    api_key,         \* TMDB_API_KEY is configured
    pc,              \* position of each run of process_rss_data
    entries,         \* each run's list returned by fetch_user_diary
    i,               \* each run's count of entries handled by the loop
    tmdb_requests,   \* GETs each run's TMDBService has issued
    response,        \* the answer each run's feed GET got
    exc,             \* the exception each run's try block raised
    escaped,         \* the exception that left each run's coroutine
    stats_response,  \* the latest answer of get_stats
    xml_items,       \* the item elements of a feed document given to the parser
    parsed,          \* what _parse_rss_content returned for xml_items
    stat_rows,       \* the DiaryEntry list given to compute_user_stats
    user_stats       \* what compute_user_stats returned for stat_rows

\* The variables outside process_rss_data: the stats endpoint, the feed
\* parser and the stats service on their own.
side_vars == <<stats_response, xml_items, parsed, stat_rows, user_stats>>

vars == <<sessions, diary_entries, movie_details, api_key, pc, entries, i,
          tmdb_requests, response, exc, escaped, side_vars>>

NoException == "none"
NoResponse == [kind |-> "pending", code |-> 0, xml_ok |-> FALSE]
\* stats_response holds the latest answer of get_stats.
NoStats == [session_id |-> NoneStr, status_code |-> 0, detail |-> NoneStr,
            total_films |-> 0, average_rating |-> [sum |-> 0, count |-> 0]]
NotParsed == [done |-> FALSE, raised |-> FALSE, entries |-> <<>>]
NotComputed == [done |-> FALSE]

\* No stats request in flight, nothing handed to the parser or the stats
\* service.
SideIdle ==
    /\ stats_response = NoStats
    /\ xml_items = <<>>
    /\ parsed = NotParsed
    /\ stat_rows = <<>>
    /\ user_stats = NotComputed

\* No ingest request has been made yet.
PipelineInit ==
    /\ sessions = <<>>
    /\ diary_entries = <<>>
    /\ movie_details = {}
    /\ api_key \in BOOLEAN
    /\ pc = [s \in SessionIds |-> "unborn"]
    /\ entries = [s \in SessionIds |-> <<>>]
    /\ i = [s \in SessionIds |-> 0]
    /\ tmdb_requests = [s \in SessionIds |-> 0]
    /\ response = [s \in SessionIds |-> NoResponse]
    /\ exc = [s \in SessionIds |-> NoException]
    /\ escaped = [s \in SessionIds |-> NoException]

Init == SideIdle /\ PipelineInit

(***************************************************************************)
(* RSSIngestionService.fetch_user_diary: the entries of a 2xx, parsable    *)
(* answer; every failure leaves as LetterboxdRSSError with a cause.        *)
(***************************************************************************)
HttpErrorMessage(code) == "HTTP error " \o ToString(code)

\* fetch_user_diary with the 403 branch lost: a private diary is reported as
\* a generic HTTP error.
fetch_user_diary_without_403(o) ==
    IF o.kind = "timeout"
    THEN [raised |-> TRUE, message |-> "Request timed out - Letterboxd may be slow", entries |-> <<>>]
    ELSE IF o.kind = "transport"
    THEN [raised |-> TRUE, message |-> "Failed to fetch diary", entries |-> <<>>]
    ELSE IF o.code = 404
    THEN [raised |-> TRUE, message |-> "User not found on Letterboxd", entries |-> <<>>]
    ELSE IF o.code < 200 \/ o.code > 299
    THEN [raised |-> TRUE, message |-> HttpErrorMessage(o.code), entries |-> <<>>]
    ELSE IF ~o.xml_ok
    THEN [raised |-> TRUE, message |-> "Invalid RSS format", entries |-> <<>>]
    ELSE [raised |-> FALSE, message |-> NoneStr, entries |-> o.parsed]

fetch_user_diary(o) ==
    IF o.kind = "timeout"
    THEN [raised |-> TRUE, message |-> "Request timed out - Letterboxd may be slow", entries |-> <<>>]
    ELSE IF o.kind = "transport"
    THEN [raised |-> TRUE, message |-> "Failed to fetch diary", entries |-> <<>>]
    ELSE IF o.code = 404
    THEN [raised |-> TRUE, message |-> "User not found on Letterboxd", entries |-> <<>>]
    ELSE IF o.code = 403
    THEN [raised |-> TRUE, message |-> "User has private diary", entries |-> <<>>]
    ELSE IF o.code < 200 \/ o.code > 299
    THEN [raised |-> TRUE, message |-> HttpErrorMessage(o.code), entries |-> <<>>]
    ELSE IF ~o.xml_ok
    THEN [raised |-> TRUE, message |-> "Invalid RSS format", entries |-> <<>>]
    ELSE [raised |-> FALSE, message |-> NoneStr, entries |-> o.parsed]

(***************************************************************************)
(* TMDBService.search_movie: None without a request when no key is set;    *)
(* with a key, None for every exception and for an empty result list,      *)
(* otherwise the first result as it came.                                  *)
(***************************************************************************)
NoneResult == [kind |-> "none", id |-> None, release_date |-> <<>>, title |-> NoneStr]

\* search_movie without its key guard: the request goes out regardless.
search_movie_request_unguarded(key) == TRUE

\* Lines 18-32: the request is issued only when a key is configured.
search_movie_request(key) == key

\* Lines 33-45: what the awaited request makes of the answer.
search_movie_result(o) == IF o.kind = "results" THEN o.first ELSE NoneResult

(***************************************************************************)
(* int(release_date[:4]) of a search result (ingestion.py line 215).       *)
(***************************************************************************)
DigitValue ==
    [c \in {"0", "1", "2", "3", "4", "5", "6", "7", "8", "9"} |->
        CASE c = "0" -> 0 [] c = "1" -> 1 [] c = "2" -> 2 [] c = "3" -> 3
          [] c = "4" -> 4 [] c = "5" -> 5 [] c = "6" -> 6 [] c = "7" -> 7
          [] c = "8" -> 8 [] c = "9" -> 9]

Prefix(s, n) == SubSeq(s, 1, IF Len(s) < n THEN Len(s) ELSE n)

IsDecimal(s) == Len(s) > 0 /\ \A k \in 1..Len(s) : s[k] \in DOMAIN DigitValue

RECURSIVE DecimalValue(_)
DecimalValue(s) ==
    IF Len(s) = 0 THEN 0
    ELSE 10 * DecimalValue(SubSeq(s, 1, Len(s) - 1)) + DigitValue[s[Len(s)]]

\* year of a new MovieDetails row: the release year when the result has a
\* release date (ValueError when it does not start with digits), else the
\* entry's own year, which may be None.
MovieYear(r, entry_data) ==
    IF r.release_date # <<>>
    THEN IF IsDecimal(Prefix(r.release_date, 4))
         THEN [exc |-> NoException, year |-> DecimalValue(Prefix(r.release_date, 4))]
         ELSE [exc |-> "ValueError", year |-> None]
    ELSE [exc |-> NoException, year |-> entry_data.year]

\* title of a new MovieDetails row: tmdb_data.get("title", entry title).
MovieTitle(r, entry_data) == IF r.title # NoneStr THEN r.title ELSE entry_data.title

(***************************************************************************)
(* Progress written after entry number done (1-based) of total entries:    *)
(* 30 + int(done / total * 60).  The float expression equals the integer   *)
(* floor for every total below 400 (checked by evaluation).                *)
(***************************************************************************)
\* Progress spread over the full 0-100 range instead of the 30-90 span.
ProgressAfterFullRange(done, total) == (done * 100) \div total

ProgressAfter(done, total) == 30 + ((done * 60) \div total)

(***************************************************************************)
(* The loop body for one entry, lines 187-231: the DiaryEntry row and the  *)
(* MovieDetails row (if any) it adds to the session, or the exception it   *)
(* raises before adding anything.                                          *)
(***************************************************************************)
\* The existence query finding nothing: every enriched entry builds a row.
ExistingMovieNeverFound(id) == {}

\* db.query(MovieDetails).filter(tmdb_id == id).first(): a None id compares
\* as IS NULL and matches no row of a primary-key column.
ExistingMovie(id) == {m \in movie_details : id # None /\ m.tmdb_id = id}

\* An upsert in place of get-or-create: the built row replaces the stored one.
MoviesWithMerge(id, built) ==
    {m \in movie_details : id = None \/ m.tmdb_id # id} \cup {built}

\* Lines 205-223: the MovieDetails table as the session sees it after the
\* body, the built row added only when no row has the id.
MoviesWith(id, built) ==
    IF ExistingMovie(id) # {} THEN movie_details ELSE movie_details \cup {built}

\* Rows tagged with one shared session id instead of the run's own.
DiaryEntryRowSharedSession(s, entry_data, id, enriched, failed) ==
    [session_id |-> FirstSession,
     title |-> entry_data.title, year |-> entry_data.year,
     rating |-> entry_data.rating,
     tmdb_id |-> id, tmdb_enriched |-> enriched, tmdb_failed |-> failed]

DiaryEntryRow(s, entry_data, id, enriched, failed) ==
    [session_id |-> s, title |-> entry_data.title, year |-> entry_data.year,
     rating |-> entry_data.rating,
     tmdb_id |-> id, tmdb_enriched |-> enriched, tmdb_failed |-> failed]

\* The row inserted ahead of the stored ones.
PersistEntryFirst(table, row) == <<row>> \o table

\* db.add(diary_entry), line 231: the row is inserted after the stored ones.
PersistEntry(table, row) == Append(table, row)

LoopBody(s, entry_data, r) ==
    IF r.kind = "none"
    THEN [exc |-> NoException, movies |-> movie_details,
          entry |-> DiaryEntryRow(s, entry_data, None, FALSE, TRUE)]
    ELSE IF r.kind = "nondict"
    THEN [exc |-> "AttributeError", movies |-> movie_details,
          entry |-> DiaryEntryRow(s, entry_data, None, FALSE, FALSE)]
    ELSE LET y == MovieYear(r, entry_data)
             built == [tmdb_id |-> r.id, title |-> MovieTitle(r, entry_data), year |-> y.year]
             raised == IF ExistingMovie(r.id) = {} THEN y.exc ELSE NoException
         IN  [exc |-> raised,
              movies |-> IF raised = NoException THEN MoviesWith(r.id, built) ELSE movie_details,
              entry |-> DiaryEntryRow(s, entry_data, r.id, TRUE, FALSE)]

(***************************************************************************)
(* Flushing the session at db.commit(): MovieDetails.year is NOT NULL,     *)
(* tmdb_id is the primary key (unique), and a row added with tmdb_id None  *)
(* takes the next key the store generates for an integer primary key.      *)
(***************************************************************************)
MaxKey == LET keys == {m.tmdb_id : m \in movie_details} \cup {0}
          IN  CHOOSE k \in keys : \A l \in keys : l <= k

GeneratedKey(m) == IF m.tmdb_id = None THEN [m EXCEPT !.tmdb_id = MaxKey + 1] ELSE m

NotNullError == "IntegrityError: NOT NULL constraint failed: moviedetails.year"
UniqueError == "IntegrityError: UNIQUE constraint failed: moviedetails.tmdb_id"

FlushMovies(movies) ==
    IF \E m \in movies : m.year = None
    THEN [exc |-> NotNullError, movies |-> movie_details]
    ELSE IF \E m \in movies, old \in movies : m # old /\ m.tmdb_id # None /\ m.tmdb_id = old.tmdb_id
    THEN [exc |-> UniqueError, movies |-> movie_details]
    ELSE [exc |-> NoException, movies |-> {GeneratedKey(m) : m \in movies}]

StorageError == "OperationalError"

(***************************************************************************)
(* process_rss_data, lines 246-264: both except clauses reload the         *)
(* session row, set it to FAILED with a message and commit.  When that     *)
(* commit raises, the write is rolled back and the exception leaves the    *)
(* handler.                                                                *)
(***************************************************************************)
RssMessage(e) == e
ProcessingMessage(e) == "Processing error: " \o e

\* The handler setting the status only.
FailedRowWithoutMessage(row, message) == [row EXCEPT !.status = FAILED]

FailedRow(row, message) == [row EXCEPT !.status = FAILED, !.error_message = message]

\* A handler that purges the failed session's entries.
EntriesAfterHandlerPurged(s) == SelectSeq(diary_entries, LAMBDA e : e.session_id # s)

\* Rows of DiaryEntry after the handler: a failed commit rolls back only its
\* own transaction, the handler deletes nothing.
EntriesAfterHandler(s) == diary_entries

Handler(s, e, message, hok) ==
    /\ exc' = [exc EXCEPT ![s] = e]
    /\ IF hok
       THEN /\ sessions' = [sessions EXCEPT ![s] = FailedRow(sessions[s], message)]
            /\ escaped' = escaped
       ELSE /\ sessions' = sessions
            /\ escaped' = [escaped EXCEPT ![s] = StorageError]
    /\ diary_entries' = EntriesAfterHandler(s)
    /\ pc' = [pc EXCEPT ![s] = "closing"]

(***************************************************************************)
(* ingest_rss, lines 33-61: a new session row in PROCESSING at progress 0  *)
(* under a fresh uuid, then the background task is scheduled.  When the    *)
(* commit raises, nothing is stored and no task is scheduled.              *)
(***************************************************************************)
ingest_rss(s, username, ok) ==
    /\ pc[s] = "unborn"
    /\ IF ok
       THEN /\ sessions' = (s :> [username |-> username, status |-> PROCESSING,
                                  progress |-> 0, error_message |-> NoneStr]) @@ sessions
            /\ pc' = [pc EXCEPT ![s] = "start"]
       ELSE /\ sessions' = sessions
            /\ pc' = [pc EXCEPT ![s] = "rejected"]
    /\ UNCHANGED <<diary_entries, movie_details, api_key, entries, i,
                   tmdb_requests, response, exc, escaped, side_vars>>

(***************************************************************************)
(* process_rss_data, lines 163-177: progress 10 is committed, then the     *)
(* run awaits the feed.                                                    *)
(***************************************************************************)
Start(s, ok, hok) ==
    /\ pc[s] = "start"
    /\ s \in DOMAIN sessions
    /\ IF ok
       THEN /\ sessions' = [sessions EXCEPT ![s].progress = 10]
            /\ pc' = [pc EXCEPT ![s] = "fetch"]
            /\ UNCHANGED <<diary_entries, exc, escaped>>
       ELSE Handler(s, StorageError, ProcessingMessage(StorageError), hok)
    /\ UNCHANGED <<movie_details, api_key, entries, i, tmdb_requests, response, side_vars>>

(***************************************************************************)
(* Lines 177-184: the feed answers; a LetterboxdRSSError goes to its own   *)
(* except clause, otherwise progress 30 is committed.                      *)
(***************************************************************************)
RECURSIVE FetchedBy(_)
FetchedBy(S) ==
    IF S = {} THEN 0
    ELSE LET t == CHOOSE x \in S : TRUE IN Len(entries[t]) + FetchedBy(S \ {t})

FetchReturn(s, o, ok, hok) ==
    /\ pc[s] = "fetch"
    /\ Len(o.parsed) + FetchedBy(SessionIds) <= MaxEntries
    /\ LET f == fetch_user_diary(o)
       IN  IF f.raised
           THEN /\ Handler(s, "LetterboxdRSSError", RssMessage(f.message), hok)
                /\ entries' = entries
           ELSE IF ok
           THEN /\ entries' = [entries EXCEPT ![s] = f.entries]
                /\ sessions' = [sessions EXCEPT ![s].progress = 30]
                /\ pc' = [pc EXCEPT ![s] = "loop"]
                /\ UNCHANGED <<diary_entries, exc, escaped>>
           ELSE /\ Handler(s, StorageError, ProcessingMessage(StorageError), hok)
                /\ entries' = [entries EXCEPT ![s] = f.entries]
    /\ response' = [response EXCEPT ![s] = [kind |-> o.kind, code |-> o.code, xml_ok |-> o.xml_ok]]
    /\ UNCHANGED <<movie_details, api_key, i, tmdb_requests, side_vars>>

(***************************************************************************)
(* Lines 186-236 for one entry, from the search result on: the loop body,  *)
(* then the commit of the entry, of a new MovieDetails row and of the      *)
(* progress.                                                               *)
(***************************************************************************)
Enrich(s, r, ok, hok) ==
    LET total_entries == Len(entries[s])
        body == LoopBody(s, entries[s][i[s] + 1], r)
        flush == FlushMovies(body.movies)
    IN  IF body.exc # NoException
        THEN Handler(s, body.exc, ProcessingMessage(body.exc), hok) /\ UNCHANGED <<movie_details, i>>
        ELSE IF ~ok
        THEN Handler(s, StorageError, ProcessingMessage(StorageError), hok) /\ UNCHANGED <<movie_details, i>>
        ELSE IF flush.exc # NoException
        THEN Handler(s, flush.exc, ProcessingMessage(flush.exc), hok) /\ UNCHANGED <<movie_details, i>>
        ELSE /\ movie_details' = flush.movies
             /\ diary_entries' = PersistEntry(diary_entries, body.entry)
             /\ sessions' = [sessions EXCEPT ![s].progress = ProgressAfter(i[s] + 1, total_entries)]
             /\ i' = [i EXCEPT ![s] = i[s] + 1]
             /\ pc' = [pc EXCEPT ![s] = "loop"]
             /\ UNCHANGED <<exc, escaped>>

\* Line 199, the call: with a key the request goes out and the run awaits
\* the answer; without one search_movie returns None at once.
SearchCall(s, ok, hok) ==
    /\ pc[s] = "loop"
    /\ i[s] < Len(entries[s])
    /\ IF search_movie_request(api_key)
       THEN /\ tmdb_requests' = [tmdb_requests EXCEPT ![s] = tmdb_requests[s] + 1]
            /\ pc' = [pc EXCEPT ![s] = "search"]
            /\ UNCHANGED <<sessions, diary_entries, movie_details, i, exc, escaped>>
       ELSE /\ Enrich(s, NoneResult, ok, hok)
            /\ UNCHANGED tmdb_requests
    /\ UNCHANGED <<api_key, entries, response, side_vars>>

\* Line 199, the answer.
SearchReturn(s, o, ok, hok) ==
    /\ pc[s] = "search"
    /\ Enrich(s, search_movie_result(o), ok, hok)
    /\ UNCHANGED <<api_key, entries, tmdb_requests, response, side_vars>>

(***************************************************************************)
(* Lines 238-242: after the last entry the session is committed as         *)
(* COMPLETED at progress 100.                                              *)
(***************************************************************************)
CompletedRow(row) == [row EXCEPT !.status = COMPLETED, !.progress = 100]

Finalize(s, ok, hok) ==
    /\ pc[s] = "loop"
    /\ i[s] = Len(entries[s])
    /\ IF ok
       THEN /\ sessions' = [sessions EXCEPT ![s] = CompletedRow(sessions[s])]
            /\ pc' = [pc EXCEPT ![s] = "closing"]
            /\ UNCHANGED <<diary_entries, exc, escaped>>
       ELSE Handler(s, StorageError, ProcessingMessage(StorageError), hok)
    /\ UNCHANGED <<movie_details, api_key, entries, i, tmdb_requests, response, side_vars>>

(***************************************************************************)
(* Lines 266-268, the finally clause: both clients are closed outside the  *)
(* try block, so an exception of aclose() leaves the coroutine; raised     *)
(* while the handler's exception is in flight, it carries that one as its  *)
(* context.                                                                *)
(***************************************************************************)
CloseError == "CloseError"
ChainedCloseError == "CloseError during OperationalError"

\* The clients closed inside the try block: an exception of aclose() reaches
\* the except clause and the session is marked FAILED.
CloseInsideTry(s, ok) ==
    /\ pc[s] = "closing"
    /\ pc' = [pc EXCEPT ![s] = "done"]
    /\ escaped' = escaped
    /\ sessions' = IF ok \/ s \notin DOMAIN sessions THEN sessions
                   ELSE [sessions EXCEPT ![s].status = FAILED,
                                         ![s].error_message = "Processing error: CloseError"]
    /\ UNCHANGED <<diary_entries, movie_details, api_key, entries, i,
                   tmdb_requests, response, exc, side_vars>>

Close(s, ok) ==
    /\ pc[s] = "closing"
    /\ pc' = [pc EXCEPT ![s] = "done"]
    /\ escaped' = IF ok THEN escaped
                  ELSE [escaped EXCEPT ![s] = IF escaped[s] = NoException THEN CloseError
                                               ELSE ChainedCloseError]
    /\ UNCHANGED <<sessions, diary_entries, movie_details, api_key, entries, i,
                   tmdb_requests, response, exc, side_vars>>

Next ==
    \/ \E s \in SessionIds, u \in Usernames, ok \in BOOLEAN : ingest_rss(s, u, ok)
    \/ \E s \in SessionIds, ok, hok \in BOOLEAN : Start(s, ok, hok)
    \/ \E s \in SessionIds, o \in FetchOutcomes, ok, hok \in BOOLEAN : FetchReturn(s, o, ok, hok)
    \/ \E s \in SessionIds, ok, hok \in BOOLEAN : SearchCall(s, ok, hok)
    \/ \E s \in SessionIds, o \in SearchOutcomes, ok, hok \in BOOLEAN : SearchReturn(s, o, ok, hok)
    \/ \E s \in SessionIds, ok, hok \in BOOLEAN : Finalize(s, ok, hok)
    \/ \E s \in SessionIds, ok \in BOOLEAN : Close(s, ok)

Spec == Init /\ [][Next]_vars

(***************************************************************************)
(* Properties.                                                             *)
(***************************************************************************)
Terminal == {COMPLETED, FAILED}
Jobs == DOMAIN sessions
RowsOf(s) == SelectSeq(diary_entries, LAMBDA e : e.session_id = s)
Ended(s) == pc[s] \in {"closing", "done"}
\* The commit of the except clause of run s did not raise.
HandlerCommitted(s) == escaped[s] \notin {StorageError, ChainedCloseError}

\* C1: a Job becomes terminal exactly once: no step of any run changes the
\* status of a session that is COMPLETED or FAILED, so nothing leads from a
\* terminal status back to PROCESSING or to the other terminal status.
C1_TerminalOnce ==
    [][\A s \in Jobs :
          sessions[s].status \in Terminal
              => s \in DOMAIN sessions' /\ sessions'[s].status = sessions[s].status]_vars

\* Reached: one Job COMPLETED whose run met an exception of aclose() after
\* the terminal commit, next to another Job that ended FAILED.
C1_Witness ==
    \E s, t \in Jobs :
        /\ s # t
        /\ sessions[s].status = COMPLETED /\ pc[s] = "done" /\ escaped[s] = CloseError
        /\ sessions[t].status = FAILED /\ pc[t] = "done"

\* The progress values a Job with n entries commits, in order.
ExpectedProgress(n) ==
    <<0, 10, 30>> \o [k \in 1..n |-> 30 + ((k * 60) \div n)] \o <<100>>

C2_Shape ==
    \A s \in Jobs :
        LET n == Len(entries[s])
            p == sessions[s].progress
            seq == ExpectedProgress(n)
        IN  /\ \E k \in 1..Len(seq) : seq[k] = p
            /\ (pc[s] \in {"loop", "search"} => p = seq[3 + i[s]])
            /\ (sessions[s].status = COMPLETED => p = 100)
            /\ (sessions[s].status = FAILED => p < 100)

C2_Step == \A s \in Jobs : s \in DOMAIN sessions' /\ sessions'[s].progress >= sessions[s].progress

\* C2: the committed progress of a Job runs through 0, 10, 30,
\* 30 + floor(k / N * 60) for k = 1..N, 100; it never decreases from one
\* commit to the next, it is 100 when the Job is COMPLETED and below 100
\* when the Job is FAILED.
C2_ProgressMonotone == [](C2_Shape) /\ [][C2_Step]_vars

\* Reached: a Job of two entries FAILED after its first entry, at 60.
C2_Witness ==
    \E s \in Jobs :
        /\ Len(entries[s]) = 2 /\ i[s] = 1
        /\ sessions[s].status = FAILED /\ sessions[s].progress = 60

\* C3: whichever step of a run raises, no exception leaves the run and the
\* Job ends FAILED with a wrapped message; no run ends with its Job still in
\* PROCESSING.
C3_NoEscape ==
    \A s \in Jobs :
        pc[s] = "done" =>
            /\ escaped[s] = NoException
            /\ sessions[s].status # PROCESSING
            /\ (exc[s] # NoException =>
                    sessions[s].status = FAILED /\ sessions[s].error_message # NoneStr)

\* The feed GET of run s failed: no answer, a non-2xx status, or a body that
\* is not XML.
FeedFailed(s) ==
    /\ response[s] # NoResponse
    /\ \/ response[s].kind # "response"
       \/ response[s].code < 200 \/ response[s].code > 299
       \/ ~response[s].xml_ok

FeedCause(a) ==
    IF a.kind = "timeout" THEN "Request timed out - Letterboxd may be slow"
    ELSE IF a.kind = "transport" THEN "Failed to fetch diary"
    ELSE IF a.code = 404 THEN "User not found on Letterboxd"
    ELSE IF a.code = 403 THEN "User has private diary"
    ELSE IF a.code < 200 \/ a.code > 299 THEN "HTTP error " \o ToString(a.code)
    ELSE "Invalid RSS format"

\* C4: a run whose feed fetch failed (and whose handler commit went through)
\* leaves its Job FAILED straight from progress 10, the error detail being
\* the cause of the failure: user not found for 404, private diary for 403,
\* the HTTP status for another non-2xx answer, a timeout, a malformed feed;
\* the Job has no entry and its run issued no enrichment request.
C4_FeedFailure ==
    \A s \in Jobs :
        FeedFailed(s) /\ HandlerCommitted(s) =>
            /\ sessions[s].status = FAILED
            /\ sessions[s].progress = 10
            /\ sessions[s].error_message = FeedCause(response[s])
            /\ exc[s] = "LetterboxdRSSError"
            /\ Len(RowsOf(s)) = 0 /\ i[s] = 0
            /\ tmdb_requests[s] = 0

\* Reached: one Job failed on 403, another on a malformed feed, while a key
\* is configured.
C4_Witness ==
    \E s, t \in Jobs :
        /\ api_key
        /\ response[s].kind = "response" /\ response[s].code = 403
        /\ sessions[s].error_message = "User has private diary"
        /\ response[t].kind = "response" /\ response[t].code = 200 /\ ~response[t].xml_ok
        /\ sessions[t].status = FAILED

\* C5: enrichment failures are entry-local: a run whose feed was fetched and
\* whose storage never failed is not ended by any answer of the metadata
\* source; every entry of its feed is persisted and its Job is COMPLETED.
C5_EnrichmentLocal ==
    \A s \in Jobs :
        Ended(s) /\ response[s] # NoResponse /\ ~FeedFailed(s)
                 /\ exc[s] # StorageError /\ HandlerCommitted(s) =>
            /\ sessions[s].status = COMPLETED
            /\ Len(RowsOf(s)) = Len(entries[s])

\* C6: without a key no request is issued, every persisted entry is recorded
\* as enrichment-failed with no external id, no MovieDetails row exists, no
\* run is ended by enrichment, and a run that raised nothing has its Job
\* COMPLETED with all its entries.
C6_NoCredential ==
    ~api_key =>
        /\ movie_details = {}
        /\ \A s \in SessionIds : tmdb_requests[s] = 0 /\ pc[s] # "search"
        /\ \A k \in 1..Len(diary_entries) :
              /\ diary_entries[k].tmdb_failed
              /\ ~diary_entries[k].tmdb_enriched
              /\ diary_entries[k].tmdb_id = None
        /\ \A s \in Jobs :
              /\ exc[s] \in {NoException, "LetterboxdRSSError", StorageError}
              /\ (Ended(s) /\ exc[s] = NoException =>
                    sessions[s].status = COMPLETED /\ Len(RowsOf(s)) = Len(entries[s]))

\* Reached: without a key, a Job of two entries COMPLETED.
C6_Witness ==
    /\ ~api_key
    /\ \E s \in Jobs : sessions[s].status = COMPLETED /\ Len(RowsOf(s)) = 2

\* C7: under every interleaving of the runs, MovieDetails holds at most one
\* row per tmdb_id, no run is ended by a uniqueness violation, and each run
\* has persisted every entry its loop has finished.
C7_OneRecordPerId ==
    /\ \A m, n \in movie_details : m.tmdb_id = n.tmdb_id => m = n
    /\ \A s \in Jobs : exc[s] # UniqueError /\ Len(RowsOf(s)) = i[s]

\* Reached: two Jobs, each COMPLETED with an entry enriched under the same
\* id, and one row for that id.
C7_Witness ==
    \E s, t \in Jobs : \E d \in TmdbIds :
        /\ s # t
        /\ sessions[s].status = COMPLETED /\ sessions[t].status = COMPLETED
        /\ \E k \in 1..Len(RowsOf(s)) : RowsOf(s)[k].tmdb_enriched /\ RowsOf(s)[k].tmdb_id = d
        /\ \E k \in 1..Len(RowsOf(t)) : RowsOf(t)[k].tmdb_enriched /\ RowsOf(t)[k].tmdb_id = d
        /\ Cardinality({m \in movie_details : m.tmdb_id = d}) = 1

\* C8: a stored MovieDetails row is never changed or removed, and a step
\* that persists an entry under an id that already has a row leaves the
\* table as it was: the row is reused, no second row is built.
C8_ReuseLeavesRecord ==
    [][/\ \A m \in movie_details : m \in movie_details'
       /\ Len(diary_entries') = Len(diary_entries) + 1 =>
            LET e == diary_entries'[Len(diary_entries')]
            IN  (\E m \in movie_details : m.tmdb_id = e.tmdb_id)
                    => movie_details' = movie_details /\ e.tmdb_enriched]_vars

\* Reached: two entries of different title and year persisted under one id
\* that has a single row.
C8_Witness ==
    \E k, l \in 1..Len(diary_entries) :
        /\ k < l
        /\ diary_entries[k].tmdb_enriched /\ diary_entries[l].tmdb_enriched
        /\ diary_entries[k].tmdb_id = diary_entries[l].tmdb_id
        /\ diary_entries[k].tmdb_id # None
        /\ diary_entries[k].title # diary_entries[l].title
        /\ Cardinality({m \in movie_details : m.tmdb_id = diary_entries[k].tmdb_id}) = 1

\* C9: in every committed state the error detail of a Job is present exactly
\* when its status is FAILED.
C9_ErrorIffFailed ==
    \A s \in Jobs : (sessions[s].error_message # NoneStr) <=> (sessions[s].status = FAILED)

\* Reached: a FAILED Job with a message next to a COMPLETED Job without one.
C9_Witness ==
    \E s, t \in Jobs :
        /\ sessions[s].status = FAILED /\ sessions[s].error_message # NoneStr
        /\ sessions[t].status = COMPLETED /\ sessions[t].error_message = NoneStr

\* C10: a Job that is FAILED after its run had committed k entries still has
\* exactly those k entries, in feed order; only the entry in flight is absent.
C10_EntriesRetained ==
    \A s \in Jobs :
        sessions[s].status = FAILED =>
            /\ Len(RowsOf(s)) = i[s]
            /\ \A k \in 1..i[s] :
                  /\ RowsOf(s)[k].title = entries[s][k].title
                  /\ RowsOf(s)[k].year = entries[s][k].year

\* Reached: a Job of two entries FAILED while handling the second, the first
\* still stored.
C10_Witness ==
    \E s \in Jobs :
        /\ sessions[s].status = FAILED
        /\ Len(entries[s]) = 2 /\ i[s] = 1
        /\ Len(RowsOf(s)) = 1 /\ RowsOf(s)[1].title = entries[s][1].title

RowsIn(table, s) == SelectSeq(table, LAMBDA e : e.session_id = s)

C11_Independent ==
    \A s, t \in Jobs :
        s # t /\ sessions[s].username = sessions[t].username =>
            /\ Len(RowsOf(s)) = i[s] /\ Len(RowsOf(t)) = i[t]
            /\ \A k \in 1..i[s] : RowsOf(s)[k].title = entries[s][k].title

C11_OwnWrites ==
    \A s \in SessionIds :
        pc'[s] = pc[s] /\ i'[s] = i[s] =>
            /\ RowsIn(diary_entries', s) = RowsIn(diary_entries, s)
            /\ (s \in Jobs => s \in DOMAIN sessions' /\ sessions'[s] = sessions[s])

\* C11: two requests for the same username give two Jobs under distinct ids;
\* each run persists every entry of its own feed under its own id, whatever
\* the other Job already stored (no deduplication), and a step of one run
\* leaves the other Job's status, progress, error detail and entries alone.
C11_TwoIndependentJobs == [](C11_Independent) /\ [][C11_OwnWrites]_vars

\* Reached: two Jobs of one user, both COMPLETED from the same one-entry
\* feed, each with its own copy of the entry.
C11_Witness ==
    \E s, t \in Jobs :
        /\ s # t /\ sessions[s].username = sessions[t].username
        /\ sessions[s].status = COMPLETED /\ sessions[t].status = COMPLETED
        /\ entries[s] = entries[t] /\ Len(entries[s]) = 1
        /\ Len(RowsOf(s)) = 1 /\ Len(RowsOf(t)) = 1
        /\ RowsOf(s)[1].title = RowsOf(t)[1].title

C17_Order ==
    \A s \in Jobs :
        /\ Len(RowsOf(s)) <= Len(entries[s])
        /\ \A k \in 1..Len(RowsOf(s)) :
              /\ RowsOf(s)[k].title = entries[s][k].title
              /\ RowsOf(s)[k].year = entries[s][k].year

C17_Step ==
    \A s \in Jobs :
        /\ s \in DOMAIN sessions'
        /\ i'[s] # i[s] =>
              /\ i'[s] = i[s] + 1
              /\ Len(RowsIn(diary_entries', s)) = i'[s]
              /\ SubSeq(RowsIn(diary_entries', s), 1, i[s]) = RowsIn(diary_entries, s)
              /\ sessions'[s].progress = 30 + ((i'[s] * 60) \div Len(entries[s]))
        /\ (i'[s] = i[s] /\ sessions'[s].status = PROCESSING /\ pc[s] \in {"loop", "search"}
              => sessions'[s].progress = sessions[s].progress)

\* C17: the persisted entries of a Job are a prefix of its parsed entries in
\* feed order; each loop step persists the next entry after the ones already
\* stored, and the progress value of entry k is committed in the step that
\* persists entry k, never before.
C17_FeedOrder == [](C17_Order) /\ [][C17_Step]_vars

\* Reached: a Job whose two entries, of different titles, are both stored.
C17_Witness ==
    \E s \in Jobs :
        /\ Len(entries[s]) = 2 /\ Len(RowsOf(s)) = 2
        /\ entries[s][1].title # entries[s][2].title
        /\ sessions[s].progress = 90


(***************************************************************************)
(* The stats endpoint, routers/stats.py.  Ratings are integers in half-star *)
(* units, so an average is kept as the pair the division is made of:       *)
(* sum / count.                                                            *)
(***************************************************************************)
RECURSIVE SumRatings(_)
SumRatings(es) == IF es = <<>> THEN 0 ELSE Head(es).rating + SumRatings(Tail(es))

\* [e for e in entries if e.rating is not None]
RatedEntries(es) == SelectSeq(es, LAMBDA e : e.rating # None)

NoAverage == [sum |-> 0, count |-> 0]

AverageRatingOverAll(es) ==
    IF RatedEntries(es) # <<>>
    THEN [sum |-> SumRatings(RatedEntries(es)), count |-> Len(es)]
    ELSE NoAverage

\* sum(e.rating for e in rated_entries) / len(rated_entries) if rated_entries
\* else None
AverageRating(es) ==
    IF RatedEntries(es) # <<>>
    THEN [sum |-> SumRatings(RatedEntries(es)), count |-> Len(RatedEntries(es))]
    ELSE NoAverage

HttpError(s, code, detail) ==
    [session_id |-> s, status_code |-> code, detail |-> detail,
     total_films |-> 0, average_rating |-> NoAverage]

StatsAnswerAnyStatus(s) ==
    IF s \notin Jobs THEN HttpError(s, 404, "Session not found")
    ELSE IF RowsOf(s) = <<>> THEN HttpError(s, 404, "No diary entries found")
    ELSE [session_id |-> s, status_code |-> 200, detail |-> NoneStr,
          total_films |-> Len(RowsOf(s)), average_rating |-> AverageRating(RowsOf(s))]

\* The body of get_stats: what the request for session s is answered with.
StatsAnswer(s) ==
    IF s \notin Jobs THEN HttpError(s, 404, "Session not found")
    ELSE IF sessions[s].status # COMPLETED THEN HttpError(s, 400, "Session not completed")
    ELSE IF RowsOf(s) = <<>> THEN HttpError(s, 404, "No diary entries found")
    ELSE [session_id |-> s, status_code |-> 200, detail |-> NoneStr,
          total_films |-> Len(RowsOf(s)), average_rating |-> AverageRating(RowsOf(s))]

\* GET /{session_id}: the handler only queries; it runs between two awaits of
\* the pipeline, so it sees committed rows.
get_stats(s) ==
    /\ stats_response' = StatsAnswer(s)
    /\ UNCHANGED <<sessions, diary_entries, movie_details, api_key, pc, entries, i,
                   tmdb_requests, response, exc, escaped,
                   xml_items, parsed, stat_rows, user_stats>>

\* One job and its client: the second ingest request was refused by storage.

InitStats ==
    /\ SideIdle
    /\ sessions = << >>
    /\ diary_entries = << >>
    /\ movie_details = {}
    /\ api_key \in BOOLEAN
    /\ pc = [s \in SessionIds |-> IF s = FirstSession THEN "unborn" ELSE "rejected"]
    /\ entries = [s \in SessionIds |-> << >>]
    /\ i = [s \in SessionIds |-> 0]
    /\ tmdb_requests = [s \in SessionIds |-> 0]
    /\ response = [s \in SessionIds |-> NoResponse]
    /\ exc = [s \in SessionIds |-> NoException]
    /\ escaped = [s \in SessionIds |-> NoException]

NextStats ==
    \/ Next
    \/ \E s \in SessionIds : get_stats(s)

SpecStats == InitStats /\ [][NextStats]_vars

\* A stats request is answered in this step.
Answered == stats_response' # stats_response

C12_OnlyCompleted ==
    stats_response.status_code = 200 =>
        /\ stats_response.session_id \in Jobs
        /\ sessions[stats_response.session_id].status = COMPLETED

C12_Answer ==
    Answered =>
        LET a == stats_response'
            s == a.session_id
        IN  /\ (a.status_code = 200 => s \in Jobs /\ sessions[s].status = COMPLETED)
            /\ (s \in Jobs /\ sessions[s].status \in {PROCESSING, FAILED} =>
                    a.status_code = 400)
            /\ UNCHANGED <<sessions, diary_entries, movie_details>>

\* C12: get_stats answers with a summary (200) only for a Job whose status is
\* COMPLETED; a request for a Job that is PROCESSING or FAILED is answered 400,
\* and the request leaves the sessions, the diary entries and the movie
\* records as they were.
C12_StatsOnlyWhenCompleted == [](C12_OnlyCompleted) /\ [][C12_Answer]_vars

C12_Witness ==
    /\ stats_response.status_code = 400
    /\ stats_response.session_id \in Jobs
    /\ sessions[stats_response.session_id].status = FAILED
    /\ RowsOf(stats_response.session_id) # <<>>

C13_Completed ==
    \A s \in Jobs :
        sessions[s].status = COMPLETED /\ entries[s] = <<>> => sessions[s].progress = 100

C13_Answer ==
    Answered =>
        LET a == stats_response'
            s == a.session_id
        IN  s \in Jobs /\ sessions[s].status = COMPLETED /\ entries[s] = <<>> =>
                a.status_code = 200 /\ a.total_films = 0

\* C13: a Job whose feed was fetched and held no parseable entry is COMPLETED
\* at progress 100, and a stats request for it is answered with a summary of
\* total_films = 0, not with an error.
C13_EmptyFeedStats == [](C13_Completed) /\ [][C13_Answer]_vars


(***************************************************************************)
(* StatsService.compute_user_stats on a list of DiaryEntry objects.  A     *)
(* rate is kept as the pair its division is made of.                       *)
(***************************************************************************)
StatRatings == {None, 6, 8}

\* MovieDetails.genres is a JSON text: the list of genre ids it decodes to,
\* or a text json.loads rejects.
Json(ids) == [valid |-> TRUE, ids |-> ids]
BadJson == [valid |-> FALSE, ids |-> <<>>]

\* The movie_details relationship of an entry: a MovieDetails row or None.
Details(genres, director) == [present |-> TRUE, genres |-> genres, director |-> director]
NoDetails == [present |-> FALSE, genres |-> BadJson, director |-> NoneStr]

\* An entry as compute_user_stats reads it: its rating, its enrichment flag,
\* its external id and its movie_details relationship.
StatRows ==
    [rating : StatRatings, tmdb_enriched : {FALSE}, tmdb_id : {None}, movie_details : {NoDetails}]
    \cup [rating : StatRatings, tmdb_enriched : {TRUE}, tmdb_id : {1},
          movie_details : {Details(Json(<<18>>), NoneStr)}]

\* Line 20: e.tmdb_enriched and e.tmdb_id and hasattr(e, 'movie_details') and
\* e.movie_details; None and 0 are both falsy ids.
EnrichedEntries(es) ==
    SelectSeq(es, LAMBDA e : e.tmdb_enriched /\ e.tmdb_id \notin {None, 0}
                                /\ e.movie_details.present)

\* Lines 84-94: the name of a TMDB genre id, "Genre_<id>" for an unknown one.
genre_map ==
    (28 :> "Action") @@ (12 :> "Adventure") @@ (16 :> "Animation") @@ (35 :> "Comedy")
    @@ (80 :> "Crime") @@ (99 :> "Documentary") @@ (18 :> "Drama") @@ (10751 :> "Family")
    @@ (14 :> "Fantasy") @@ (36 :> "History") @@ (27 :> "Horror") @@ (10402 :> "Music")
    @@ (9648 :> "Mystery") @@ (10749 :> "Romance") @@ (878 :> "Science Fiction")
    @@ (10770 :> "TV Movie") @@ (53 :> "Thriller") @@ (10752 :> "War") @@ (37 :> "Western")

_convert_genre_ids_to_names(genre_ids) ==
    [k \in 1..Len(genre_ids) |->
        IF genre_ids[k] \in DOMAIN genre_map THEN genre_map[genre_ids[k]]
        ELSE "Genre_" \o ToString(genre_ids[k])]

\* The counting loops of lines 50-65 and 75-78 over the values met in entry
\* order: a dict keeps its keys in the order of their first insertion.
RECURSIVE Counted(_)
Counted(values) ==
    IF values = <<>> THEN <<>>
    ELSE LET front == Counted(SubSeq(values, 1, Len(values) - 1))
             v == values[Len(values)]
         IN  IF \E k \in 1..Len(front) : front[k].key = v
             THEN [k \in 1..Len(front) |->
                     IF front[k].key = v
                     THEN [key |-> v, count |-> front[k].count + 1] ELSE front[k]]
             ELSE Append(front, [key |-> v, count |-> 1])

\* The item placed ahead of the ones of equal count.
InsertAheadOfTies(ranked, p) ==
    LET k == Cardinality({j \in 1..Len(ranked) : ranked[j].count > p.count})
    IN  SubSeq(ranked, 1, k) \o <<p>> \o SubSeq(ranked, k + 1, Len(ranked))

\* One step of sorted(items, key=count, reverse=True): the sort is stable, so
\* an item goes behind the ones of greater or equal count that precede it.
InsertByCount(ranked, p) ==
    LET k == Cardinality({j \in 1..Len(ranked) : ranked[j].count >= p.count})
    IN  SubSeq(ranked, 1, k) \o <<p>> \o SubSeq(ranked, k + 1, Len(ranked))

RECURSIVE SortedByCount(_)
SortedByCount(items) ==
    IF items = <<>> THEN <<>>
    ELSE InsertByCount(SortedByCount(SubSeq(items, 1, Len(items) - 1)), items[Len(items)])

\* [key for key, count in sorted_items[:5]]
TopFive(values) ==
    LET ranked == SortedByCount(Counted(values))
    IN  [k \in 1..(IF Len(ranked) < 5 THEN Len(ranked) ELSE 5) |-> ranked[k].key]

\* Lines 50-65: the genre names of the entries in entry order; an entry whose
\* genres text does not decode is passed over.
RECURSIVE GenreNames(_)
GenreNames(es) ==
    IF es = <<>> THEN <<>>
    ELSE (IF Head(es).movie_details.present /\ Head(es).movie_details.genres.valid
          THEN _convert_genre_ids_to_names(Head(es).movie_details.genres.ids)
          ELSE <<>>)
         \o GenreNames(Tail(es))

_get_top_genres(enriched_entries) == TopFive(GenreNames(enriched_entries))

\* Lines 75-78: the directors of the entries that have one.
RECURSIVE DirectorNames(_)
DirectorNames(es) ==
    IF es = <<>> THEN <<>>
    ELSE (IF Head(es).movie_details.present /\ Head(es).movie_details.director # NoneStr
          THEN <<Head(es).movie_details.director>>
          ELSE <<>>)
         \o DirectorNames(Tail(es))

_get_top_directors(enriched_entries) == TopFive(DirectorNames(enriched_entries))

ZeroRate == [num |-> 0, den |-> 1]

\* Line 43: len(enriched_entries) / total_films if total_films > 0 else 0
EnrichmentRate(es) ==
    IF Len(es) > 0 THEN [num |-> Len(EnrichedEntries(es)), den |-> Len(es)] ELSE ZeroRate

compute_user_stats(es) ==
    [done |-> TRUE,
     total_films |-> Len(es),
     average_rating |-> AverageRating(es),
     top_genres |-> _get_top_genres(EnrichedEntries(es)),
     top_directors |-> _get_top_directors(EnrichedEntries(es)),
     enrichment_rate |-> EnrichmentRate(es)]

ComputeStats ==
    /\ ~user_stats.done
    /\ user_stats' = compute_user_stats(stat_rows)
    /\ UNCHANGED <<sessions, diary_entries, movie_details, api_key, pc, entries, i,
                   tmdb_requests, response, exc, escaped,
                   stats_response, xml_items, parsed, stat_rows>>

InitAggregate ==
    /\ PipelineInit
    /\ stats_response = NoStats
    /\ xml_items = <<>>
    /\ parsed = NotParsed
    /\ stat_rows \in SeqsUpTo(StatRows, MaxRows)
    /\ user_stats = NotComputed

NextAggregate == ComputeStats

SpecAggregate == InitAggregate /\ [][NextAggregate]_vars

\* The positions of the rated rows, and the sum of their ratings.
RatedAt == {k \in 1..Len(stat_rows) : stat_rows[k].rating # None}
RECURSIVE SumAt(_)
SumAt(K) ==
    IF K = {} THEN 0
    ELSE LET k == CHOOSE x \in K : TRUE IN stat_rows[k].rating + SumAt(K \ {k})

\* C16: the average rating is the sum of the ratings of the rated entries
\* divided by their number: unrated entries are in neither, entries that are
\* not enriched are in both and in the total; ratings 3.0, 4.0 and none give
\* 3.5 (7 half-stars); with no rated entry there is no average and nothing
\* is divided.
C16_AverageOverRated ==
    user_stats.done =>
        /\ user_stats.total_films = Len(stat_rows)
        /\ IF RatedAt = {}
           THEN user_stats.average_rating = NoAverage
           ELSE /\ user_stats.average_rating.count = Cardinality(RatedAt)
                /\ user_stats.average_rating.sum = SumAt(RatedAt)
        /\ ([k \in 1..Len(stat_rows) |-> stat_rows[k].rating] = <<6, 8, None>>
                => user_stats.average_rating.sum = 7 * user_stats.average_rating.count)

C16_Witness ==
    /\ user_stats.done
    /\ [k \in 1..Len(stat_rows) |-> stat_rows[k].rating] = <<6, 8, None>>
    /\ ~stat_rows[1].tmdb_enriched /\ stat_rows[2].tmdb_enriched
    /\ user_stats.average_rating = [sum |-> 14, count |-> 2]
    /\ user_stats.total_films = 3


(***************************************************************************)
(* The feed parser, services/rss_ingestion.py.  A text is a sequence of    *)
(* one-character strings.  Star stands for the glyph U+2605 and Half for   *)
(* U+00BD of the source's patterns.                                        *)
(***************************************************************************)
Star == "*"
Half == "%"
Whitespace == {" ", "\n"}

\* str.lower() on the letters the texts of the model hold.
LowerChar(c) ==
    CASE c = "R" -> "r" [] c = "E" -> "e" [] c = "W" -> "w" [] c = "A" -> "a"
      [] c = "T" -> "t" [] c = "C" -> "c" [] c = "H" -> "h" [] c = "Y" -> "y"
      [] c = "S" -> "s" [] c = "N" -> "n" [] c = "O" -> "o" [] c = "B" -> "b"
      [] OTHER -> c

Lower(t) == [k \in 1..Len(t) |-> LowerChar(t[k])]

\* sub in t
Contains(t, sub) ==
    \E k \in 1..(Len(t) - Len(sub) + 1) : SubSeq(t, k, k + Len(sub) - 1) = sub

\* Position of the first c in t, 0 when there is none.
IndexOf(t, c) ==
    IF \E k \in 1..Len(t) : t[k] = c
    THEN CHOOSE k \in 1..Len(t) : t[k] = c /\ \A j \in 1..(k - 1) : t[j] # c
    ELSE 0

\* str.strip()
RECURSIVE LStrip(_)
LStrip(t) == IF t # <<>> /\ Head(t) \in Whitespace THEN LStrip(Tail(t)) ELSE t
RECURSIVE RStrip(_)
RStrip(t) ==
    IF t # <<>> /\ t[Len(t)] \in Whitespace THEN RStrip(SubSeq(t, 1, Len(t) - 1)) ELSE t
Strip(t) == RStrip(LStrip(t))

\* re.sub(r"<[^>]+>", "", t): a "<", one or more characters other than ">",
\* then ">".
RECURSIVE StripTags(_)
StripTags(t) ==
    IF t = <<>> THEN <<>>
    ELSE IF Head(t) = "<" /\ IndexOf(Tail(t), ">") >= 2
    THEN StripTags(SubSeq(Tail(t), IndexOf(Tail(t), ">") + 1, Len(Tail(t))))
    ELSE <<Head(t)>> \o StripTags(Tail(t))

\* Length of the run of Star glyphs t starts with.
RECURSIVE StarRun(_)
StarRun(t) == IF t # <<>> /\ Head(t) = Star THEN 1 + StarRun(Tail(t)) ELSE 0

\* re.sub of the pattern "one or more Star, then an optional Half" by "":
\* every such run is removed, wherever it stands.
RECURSIVE RemoveStars(_)
RemoveStars(t) ==
    IF t = <<>> THEN <<>>
    ELSE IF Head(t) = Star
    THEN LET rest == SubSeq(t, StarRun(t) + 1, Len(t))
         IN  IF rest # <<>> /\ Head(rest) = Half
             THEN RemoveStars(Tail(rest))
             ELSE RemoveStars(rest)
    ELSE <<Head(t)>> \o RemoveStars(Tail(t))

\* re.sub(r"\s+", " ", t)
RECURSIVE CollapseWhitespace(_)
CollapseWhitespace(t) ==
    IF t = <<>> THEN <<>>
    ELSE IF Head(t) \in Whitespace
    THEN <<" ">> \o CollapseWhitespace(LStrip(t))
    ELSE <<Head(t)>> \o CollapseWhitespace(Tail(t))

\* The text of _extract_review_text before its length test (lines 224-229).
CleanText(description) ==
    Strip(CollapseWhitespace(RemoveStars(Strip(StripTags(description)))))

\* None for a text.
NoneText == <<NoneStr>>

\* Line 231: clean_text if clean_text and len(clean_text) > 10 else None
_extract_review_text(description) ==
    IF CleanText(description) # <<>> /\ Len(CleanText(description)) > 10
    THEN CleanText(description)
    ELSE NoneText

\* Lines 201-219.  The parser's ratings are in tenths of a star (35 is 3.5),
\* so that a rating off the half-star grid can be told from one on it.  The
\* first run of Star glyphs counts whole stars, a Half anywhere in the text
\* adds a half when there is a run.
_extract_rating_info(description) ==
    LET at == IndexOf(description, Star)
        stars == StarRun(SubSeq(description, at, Len(description)))
    IN  [rating |-> IF at = 0 THEN None
                    ELSE 10 * stars + (IF IndexOf(description, Half) # 0 THEN 5 ELSE 0),
         is_rewatch |-> \/ Contains(Lower(description), <<"r","e","w","a","t","c","h">>)
                        \/ Contains(Lower(description), <<"r","e","-","w","a","t","c","h">>)]


\* Lines 182-199: "Title, 2023", then "Title (2023)", else the whole title
\* with no year.
_extract_movie_info(title) ==
    LET t == Strip(title)
        n == Len(t)
        before_comma == RStrip(SubSeq(t, 1, n - 4))
        before_paren == SubSeq(t, 1, n - 6)
    IN  IF /\ n >= 6
           /\ IsDecimal(SubSeq(t, n - 3, n))
           /\ Len(before_comma) >= 2
           /\ before_comma[Len(before_comma)] = ","
        THEN [title |-> Strip(SubSeq(before_comma, 1, Len(before_comma) - 1)),
              year |-> DecimalValue(SubSeq(t, n - 3, n))]
        ELSE IF /\ n >= 7
                /\ t[n - 5] = "(" /\ t[n] = ")"
                /\ IsDecimal(SubSeq(t, n - 4, n - 1))
        THEN [title |-> Strip(before_paren), year |-> DecimalValue(SubSeq(t, n - 4, n - 1))]
        ELSE [title |-> t, year |-> None]

\* A datetime, by its calendar date; NoDate is None.
Date(y, m, d) == [year |-> y, month |-> m, day |-> d]
NoDate == Date(0, 0, 0)

\* Date texts are whole strings drawn from the ones below, and the two date
\* parsers are tabulated on them.
WatchedDateTexts == {"2025-06-07", "07/06/2025"}
PubDateTexts == {"Sun, 08 Jun 2025 09:00:00 +0000", "Fri, 6 Jun 2025 17:29:03 NZST",
                 "yesterday"}

\* datetime.strptime(text, "%Y-%m-%d"), line 130: NoDate for ValueError.
strptime_ymd(text) == IF text = "2025-06-07" THEN Date(2025, 6, 7) ELSE NoDate

\* Lines 233-287: the four formats (the first text matches the RFC 2822
\* one), then the pattern of line 266 (the second text matches only that),
\* else None.
_parse_pub_date(pub_date_str) ==
    IF pub_date_str = "" THEN NoDate
    ELSE IF pub_date_str = "Sun, 08 Jun 2025 09:00:00 +0000" THEN Date(2025, 6, 8)
    ELSE IF pub_date_str = "Fri, 6 Jun 2025 17:29:03 NZST" THEN Date(2025, 6, 6)
    ELSE NoDate

\* int(text) of a year element: digits, surrounding whitespace allowed.
IsInt(text) == IsDecimal(Strip(text))

\* float(text) of a rating element, in tenths: digits, or digits, a point
\* and one digit; anything else stands for a text float() rejects.
IsFloat(text) ==
    LET t == Strip(text)
        dot == IndexOf(t, ".")
    IN  IF dot = 0 THEN IsDecimal(t)
        ELSE /\ dot = Len(t) - 1
             /\ IsDecimal(SubSeq(t, 1, dot - 1))
             /\ IsDecimal(SubSeq(t, Len(t), Len(t)))

FloatValue(text) ==
    LET t == Strip(text)
        dot == IndexOf(t, ".")
    IN  IF dot = 0 THEN 10 * DecimalValue(t)
        ELSE 10 * DecimalValue(SubSeq(t, 1, dot - 1)) + DigitValue[t[Len(t)]]

\* A child element of an item: found or not, and its text (an empty element
\* has the empty text).
Elem(text) == [present |-> TRUE, text |-> text]
NoElem == [present |-> FALSE, text |-> <<>>]
NoDateElem == [present |-> FALSE, text |-> ""]

NoCandidate ==
    [yielded |-> FALSE,
     entry |-> [title |-> <<>>, year |-> None, watched_date |-> NoDate, rating |-> None,
                is_rewatch |-> FALSE, review_text |-> NoneText]]

\* The date of lines 128-136 of an item that has both date elements read.
WatchedDate(item) ==
    IF item.watchedDate.present /\ item.watchedDate.text # ""
    THEN IF strptime_ymd(item.watchedDate.text) # NoDate
         THEN strptime_ymd(item.watchedDate.text)
         ELSE _parse_pub_date(item.pubDate.text)
    ELSE _parse_pub_date(item.pubDate.text)

\* Lines 78-180.  An exception anywhere in the body (the ValueError of
\* int() at line 117) is caught at line 178 and the item yields nothing.
_parse_rss_item(item) ==
    LET structured == item.filmTitle.present /\ item.filmTitle.text # <<>>
        year_given == item.filmYear.present /\ item.filmYear.text # <<>>
        movie_info == _extract_movie_info(item.title.text)
        float_ok == item.memberRating.present /\ item.memberRating.text # <<>>
                        /\ IsFloat(item.memberRating.text)
    IN  IF ~item.title.present THEN NoCandidate
        ELSE IF ~item.pubDate.present THEN NoCandidate
        ELSE IF structured /\ year_given /\ ~IsInt(item.filmYear.text) THEN NoCandidate
        ELSE IF WatchedDate(item) = NoDate THEN NoCandidate
        ELSE [yielded |-> TRUE,
              entry |->
                [title |-> IF structured THEN item.filmTitle.text ELSE movie_info.title,
                 year |-> IF structured
                          THEN IF year_given THEN DecimalValue(Strip(item.filmYear.text)) ELSE None
                          ELSE movie_info.year,
                 watched_date |-> WatchedDate(item),
                 rating |-> IF float_ok THEN FloatValue(item.memberRating.text)
                            ELSE _extract_rating_info(item.title.text).rating,
                 is_rewatch |-> /\ item.rewatch.present /\ item.rewatch.text # <<>>
                                /\ Lower(item.rewatch.text) = <<"y", "e", "s">>,
                 review_text |-> _extract_review_text(item.description.text)]]

\* The parse gives up at the first item that yields nothing.
_parse_rss_content_aborting(items) ==
    IF \E k \in 1..Len(items) : ~_parse_rss_item(items[k]).yielded
    THEN [done |-> TRUE, raised |-> TRUE, entries |-> <<>>]
    ELSE [done |-> TRUE, raised |-> FALSE,
          entries |-> [k \in 1..Len(items) |-> _parse_rss_item(items[k]).entry]]

RECURSIVE Candidates(_)
Candidates(items) ==
    IF items = <<>> THEN <<>>
    ELSE (IF _parse_rss_item(Head(items)).yielded
          THEN <<_parse_rss_item(Head(items)).entry>> ELSE <<>>)
         \o Candidates(Tail(items))

\* Lines 60-76 on a well-formed document: every item in document order, the
\* ones that yield an entry appended.
_parse_rss_content(items) ==
    [done |-> TRUE, raised |-> FALSE, entries |-> Candidates(items)]

\* fetch_user_diary line 37 on the body of a 2xx answer.
ParseFeed ==
    /\ ~parsed.done
    /\ parsed' = _parse_rss_content(xml_items)
    /\ UNCHANGED <<sessions, diary_entries, movie_details, api_key, pc, entries, i,
                   tmdb_requests, response, exc, escaped,
                   stats_response, xml_items, stat_rows, user_stats>>


(***************************************************************************)
(* Feed documents.  DocItems vary the elements that decide whether an item *)
(* yields an entry; TextItems vary the texts its rating, rewatch flag and  *)
(* review are read from.                                                   *)
(***************************************************************************)
Item(title, pubDate, filmTitle, filmYear, watchedDate, memberRating, rewatch, description) ==
    [title |-> title, pubDate |-> pubDate, filmTitle |-> filmTitle, filmYear |-> filmYear,
     watchedDate |-> watchedDate, memberRating |-> memberRating, rewatch |-> rewatch,
     description |-> description]

FilmElements ==
    {<<NoElem, NoElem>>,
     <<Elem(<<"B">>), Elem(<<"2", "0", "1", "9">>)>>,
     <<Elem(<<"B">>), Elem(<<"2", "0", "x", "x">>)>>}

DocItems ==
    {Item(t, p, f[1], f[2], w, NoElem, NoElem, NoElem) :
        t \in {NoElem, Elem(<<"A", ",", " ", "2", "0", "2", "0">>)},
        p \in {NoDateElem, Elem("Sun, 08 Jun 2025 09:00:00 +0000"), Elem("yesterday")},
        f \in FilmElements,
        w \in {NoDateElem} \cup {Elem(x) : x \in WatchedDateTexts}}

RECURSIVE Filler(_)
Filler(n) == IF n = 0 THEN <<>> ELSE <<"x">> \o Filler(n - 1)

Glyphs == {<<>>, <<Star, Star, Star, Half, " ">>}
Words == {Filler(n) : n \in 0..MaxChars}
            \cup {<<"R", "e", "w", "a", "t", "c", "h">>,
                  <<"a", " ", " ", "r", "e", "-", "w", "a", "t", "c", "h", "\n", "o", "f", " ", "i", "t">>}
Descriptions ==
    {g \o w : g \in Glyphs, w \in Words}
        \cup {<<"<", "p", ">">> \o g \o w \o <<"<", "/", "p", ">">> : g \in Glyphs, w \in Words}

TextItems ==
    {Item(Elem(t), Elem(p), NoElem, NoElem, NoDateElem, m, r, d) :
        t \in {<<"A">>, <<"A", " ", Star, Star, Star, Star>>,
                <<"A", " ", Star, Star, Star, Star, Star, Star>>},
        p \in PubDateTexts,
        m \in {NoElem, Elem(<<"3", ".", "5">>), Elem(<<"n", "/", "a">>),
                Elem(<<"0">>), Elem(<<"7">>), Elem(<<"3", ".", "7">>)},
        r \in {NoElem, Elem(<<"Y", "e", "s">>), Elem(<<"N", "o">>)},
        d \in {NoElem} \cup {Elem(x) : x \in Descriptions}}

\* A well-formed document of up to MaxItems items is handed to the parser.
InitParse ==
    /\ PipelineInit
    /\ stats_response = NoStats
    /\ xml_items \in SeqsUpTo(DocItems, MaxItems)
    /\ parsed = NotParsed
    /\ stat_rows = <<>>
    /\ user_stats = NotComputed

\* A document of one item is handed to the parser.
InitText ==
    /\ PipelineInit
    /\ stats_response = NoStats
    /\ xml_items \in {<<x>> : x \in TextItems}
    /\ parsed = NotParsed
    /\ stat_rows = <<>>
    /\ user_stats = NotComputed

NextParse == ParseFeed

SpecParse == InitParse /\ [][NextParse]_vars
SpecText == InitText /\ [][NextParse]_vars

\* The items of the document that yield an entry.
Yielding == {k \in 1..Len(xml_items) : _parse_rss_item(xml_items[k]).yielded}

\* C14: parsing a well-formed document never raises on a bad item: such an
\* item is skipped, there are no more entries than items, the entries are
\* those of the yielding items in document order, and every entry has a
\* watched date.
C14_BadItemsSkipped ==
    parsed.done =>
        /\ ~parsed.raised
        /\ Len(parsed.entries) <= Len(xml_items)
        /\ \E f \in [1..Len(parsed.entries) -> 1..Len(xml_items)] :
              /\ \A j, k \in DOMAIN f : j < k => f[j] < f[k]
              /\ {f[j] : j \in DOMAIN f} = Yielding
              /\ \A j \in DOMAIN f : parsed.entries[j] = _parse_rss_item(xml_items[f[j]]).entry
        /\ \A j \in 1..Len(parsed.entries) : parsed.entries[j].watched_date # NoDate

C14_Witness ==
    /\ parsed.done
    /\ Len(xml_items) = 2
    /\ xml_items[1].filmYear = Elem(<<"2", "0", "x", "x">>)
    /\ xml_items[1].title.present /\ xml_items[1].pubDate.present
    /\ Len(parsed.entries) = 1
    /\ parsed.entries[1].title = <<"A">> /\ parsed.entries[1].year = 2020

\* The item has what an entry needs besides a date.
WellFormedItem(item) ==
    /\ item.title.present
    /\ ~(/\ item.filmTitle.present /\ item.filmTitle.text # <<>>
         /\ item.filmYear.present /\ item.filmYear.text # <<>>
         /\ ~IsInt(item.filmYear.text))

StructuredDate(item) ==
    IF item.watchedDate.present THEN strptime_ymd(item.watchedDate.text) ELSE NoDate

PublicationDate(item) ==
    IF item.pubDate.present THEN _parse_pub_date(item.pubDate.text) ELSE NoDate

\* C18: an item is dropped for lack of a date only when neither its
\* structured watched date nor its publication date resolves; with a valid
\* structured watched date it is yielded with that date, whatever its
\* publication date.
C18_StructuredDateSuffices ==
    parsed.done =>
        /\ Len(parsed.entries) =
              Cardinality({k \in 1..Len(xml_items) :
                              /\ WellFormedItem(xml_items[k])
                              /\ \/ StructuredDate(xml_items[k]) # NoDate
                                 \/ PublicationDate(xml_items[k]) # NoDate})
        /\ (Len(xml_items) = 1 /\ Len(parsed.entries) = 1
                /\ StructuredDate(xml_items[1]) # NoDate
              => parsed.entries[1].watched_date = StructuredDate(xml_items[1]))

\* The one item of the document has been parsed into an entry.
OneEntry == parsed.done /\ Len(xml_items) = 1 /\ Len(parsed.entries) = 1

\* C15: without a structured rating the rating of an entry is the one the
\* star glyphs of the item's description give (three stars and a half give
\* 3.5), and None when the description has no star.
C15_RatingFromDescription ==
    OneEntry /\ ~xml_items[1].memberRating.present =>
        parsed.entries[1].rating = _extract_rating_info(xml_items[1].description.text).rating

\* C19: without a structured rewatch element is_rewatch is true exactly when
\* the description holds "rewatch" or "re-watch" in any letter case.
C19_RewatchFromDescription ==
    OneEntry /\ ~xml_items[1].rewatch.present =>
        parsed.entries[1].is_rewatch =
            _extract_rating_info(xml_items[1].description.text).is_rewatch

\* C20: the review is absent exactly when the cleaned description is shorter
\* than 10 characters; a cleaned text of 10 characters or more is the review.
C20_ReviewFromTen ==
    OneEntry =>
        LET clean == CleanText(xml_items[1].description.text)
        IN  IF Len(clean) < 10
            THEN parsed.entries[1].review_text = NoneText
            ELSE parsed.entries[1].review_text = clean


\* The ratings of the half-star grid from 0.5 to 5.0, in tenths of a star.
RatingGrid == {5 * n : n \in 1..10}

\* C21: the rating of every entry, read from the structured rating element
\* or from a run of star glyphs, is None or one of 0.5, 1.0, ... 5.0: never
\* 0, never above 5.0, never off the half-star grid.
C21_RatingOnGrid ==
    parsed.done =>
        \A j \in 1..Len(parsed.entries) :
            parsed.entries[j].rating = None \/ parsed.entries[j].rating \in RatingGrid


(***************************************************************************)
(* Inputs of the rankings.  A film is its director and its genres text;    *)
(* film 0 has no director.  Directors are opaque to the counting code      *)
(* (it never compares two names but for equality), so the lists are those  *)
(* in which a film's first entry comes after a first entry of every film   *)
(* of a lower number.                                                      *)
(***************************************************************************)
Directors == <<"D1", "D2", "D3", "D4", "D5", "D6">>
GenresOf ==
    <<Json(<<28, 18>>), Json(<<18, 12>>), Json(<<12, 28, 16, 35, 80, 99>>),
      Json(<<>>), BadJson, Json(<<18, 7>>)>>

\* An entry of film k, its enrichment succeeded.  Entry -1 is one of film 1
\* that is not marked enriched; it still has its movie_details here, so that
\* only its flag keeps it out of the rankings.
RankRow(k) ==
    IF k = -1
    THEN [rating |-> None, tmdb_enriched |-> FALSE, tmdb_id |-> 2,
          movie_details |-> Details(GenresOf[1], Directors[1])]
    ELSE [rating |-> None, tmdb_enriched |-> TRUE, tmdb_id |-> k + 1,
          movie_details |-> IF k = 0 THEN Details(Json(<<28>>), NoneStr)
                            ELSE Details(GenresOf[k], Directors[k])]

\* The highest film number among the entries of a list.
Highest(films) ==
    LET used == {films[j] : j \in 1..Len(films)} \cup {0}
    IN  CHOOSE k \in used : \A l \in used : l <= k

RECURSIVE FilmLists(_)
FilmLists(n) ==
    IF n = 0 THEN {<<>>}
    ELSE LET shorter == FilmLists(n - 1)
             longest == {l \in shorter : Len(l) = n - 1}
         IN  shorter \cup
             UNION {{Append(l, k) :
                        k \in (-1)..(IF Highest(l) < Len(Directors) THEN Highest(l) + 1
                                     ELSE Len(Directors))} : l \in longest}

RankLists == {[j \in 1..Len(l) |-> RankRow(l[j])] : l \in FilmLists(MaxRanked)}

InitRanking ==
    /\ PipelineInit
    /\ stats_response = NoStats
    /\ xml_items = <<>>
    /\ parsed = NotParsed
    /\ stat_rows \in RankLists
    /\ user_stats = NotComputed

SpecRanking == InitRanking /\ [][NextAggregate]_vars

\* The positions of the entries whose enrichment succeeded.
EnrichedAt ==
    {k \in 1..Len(stat_rows) :
        /\ stat_rows[k].tmdb_enriched /\ stat_rows[k].tmdb_id \notin {None, 0}
        /\ stat_rows[k].movie_details.present}

\* ranking holds the best five of values, or all of them when they are
\* fewer: a value stands ahead of another when it was counted more often,
\* or as often and seen first.
Ranks(ranking, values, Count(_), First(_)) ==
    LET Ahead(a, b) == Count(a) > Count(b) \/ (Count(a) = Count(b) /\ First(a) < First(b))
        ranked == {ranking[j] : j \in 1..Len(ranking)}
    IN  /\ Len(ranking) = (IF Cardinality(values) < 5 THEN Cardinality(values) ELSE 5)
        /\ ranked \subseteq values
        /\ \A j, k \in 1..Len(ranking) : j < k => Ahead(ranking[j], ranking[k])
        /\ \A v \in values \ ranked : \A j \in 1..Len(ranking) : Ahead(ranking[j], v)

\* The directors of the enriched entries, how often each occurs and where
\* it occurs first.
DirectorsSeen == {stat_rows[k].movie_details.director : k \in EnrichedAt} \ {NoneStr}
DirectorCount(v) == Cardinality({k \in EnrichedAt : stat_rows[k].movie_details.director = v})
DirectorFirst(v) ==
    CHOOSE k \in EnrichedAt :
        /\ stat_rows[k].movie_details.director = v
        /\ \A j \in EnrichedAt : stat_rows[j].movie_details.director = v => k <= j

\* The genre occurrences of the enriched entries: the entry and the place in
\* its decoded list.
GenreAt(o) == _convert_genre_ids_to_names(stat_rows[o[1]].movie_details.genres.ids)[o[2]]
GenreOccurrences ==
    UNION {{<<k, p>> : p \in 1..Len(stat_rows[k].movie_details.genres.ids)} :
              k \in {j \in EnrichedAt : stat_rows[j].movie_details.genres.valid}}
GenresSeen == {GenreAt(o) : o \in GenreOccurrences}
GenreCount(v) == Cardinality({o \in GenreOccurrences : GenreAt(o) = v})
GenreFirst(v) ==
    LET at == {o \in GenreOccurrences : GenreAt(o) = v}
        first == CHOOSE o \in at :
                    \A q \in at : o[1] < q[1] \/ (o[1] = q[1] /\ o[2] <= q[2])
    IN  100 * first[1] + first[2]

\* C22: each ranking holds at most 5 values, counted over the enriched
\* entries only, in descending order of count, and of two values counted
\* equally often the one first seen in entry order comes first.
C22_TopFive ==
    user_stats.done =>
        /\ Len(user_stats.top_genres) <= 5 /\ Len(user_stats.top_directors) <= 5
        /\ Ranks(user_stats.top_directors, DirectorsSeen, DirectorCount, DirectorFirst)
        /\ Ranks(user_stats.top_genres, GenresSeen, GenreCount, GenreFirst)

\* Reached: six directors once each, the first five ranked in entry order;
\* and two directors tied at one enriched entry each, the one seen first
\* ahead, though the other has a second entry that is not enriched.
C22_Witness ==
    /\ user_stats.done
    /\ \/ /\ Cardinality(DirectorsSeen) = 6
          /\ user_stats.top_directors = <<"D1", "D2", "D3", "D4", "D5">>
          /\ Cardinality(GenresSeen) > 5
          /\ Len(user_stats.top_genres) = 5
       \/ /\ Len(stat_rows) = 3
          /\ 1 \notin EnrichedAt /\ stat_rows[1].movie_details.director = "D1"
          /\ user_stats.top_directors = <<"D1", "D2">>
          /\ stat_rows[2].movie_details.director = "D1"


\* C23: every stored DiaryEntry has exactly one enrichment outcome, enriched
\* or failed, and one marked enriched carries an external id that is not
\* None and is the key of a stored MovieDetails row.
C23_OneOutcome ==
    \A k \in 1..Len(diary_entries) :
        LET e == diary_entries[k]
        IN  /\ e.tmdb_enriched # e.tmdb_failed
            /\ (e.tmdb_enriched =>
                    e.tmdb_id # None /\ \E m \in movie_details : m.tmdb_id = e.tmdb_id)

====
